---------------------------- MODULE Spec2Model ----------------------------
(***************************************************************************)
(* Vrindavan Global Sales Auditor (src/app.py): the model selector, the    *)
(* call analyzer's reply parser, and the run_button orchestration with its *)
(* session state, as a state machine.                                      *)
(*                                                                         *)
(* Text is modelled as a sequence of one-character strings, so that strip, *)
(* split, lower and the substring test are computed, not assumed.          *)
(***************************************************************************)
EXTENDS Integers, Sequences, FiniteSets, TLC

VARIABLES
    \* st.session_state
    analysis_results, csm_summary,
    \* the script run: its position, inputs and locals
    pc, uploaded_files, model, results, idx, text, attempt,
    unique_csms, summaries, i,
    \* what the page shows
    errorShown, status, downloadOffered, exception,
    \* history of the current run, for stating the properties
    origin, attemptLog, history, backoffs, pauses, extracted, apiCalls, summaryLog,
    runs,
    \* the model selector applied to one listing
    listing, chosen,
    \* the call analyzer applied to one reply
    response, parsed

vars == <<analysis_results, csm_summary, pc, uploaded_files, model, results, idx,
          text, attempt, unique_csms, summaries, i, errorShown, status,
          downloadOffered, exception, origin, attemptLog, history, backoffs, pauses,
          extracted, apiCalls, summaryLog, runs, listing, chosen, response, parsed>>

sessionVars == <<analysis_results, csm_summary>>

selectVars == <<listing, chosen>>

parseVars == <<response, parsed>>

----------------------------------------------------------------------------
(* Bounds of the model.                                                    *)

\* uploaded transcripts per run
MaxFiles == 2

\* runs of the analysis in one session, and uploaded transcripts per run, where
\* a session of several runs is checked
MaxRuns == 2

SessionFiles == 1

\* models in one listing
MaxModels == 3

\* '###'-delimited segments in a generated reply
MaxSegs == 18

----------------------------------------------------------------------------
(* Python values.                                                          *)

\* Python's None, and a pandas DataFrame built from a list of rows
None == [none |-> TRUE]

DataFrame(rows) == [rows |-> rows]

\* an exception raised by a call
Raised == [raised |-> TRUE]

\* str.strip() with no argument removes leading and trailing whitespace
Whitespace == {" ", "\n"}

RECURSIVE lstrip(_)
lstrip(s) == IF s # <<>> /\ Head(s) \in Whitespace THEN lstrip(Tail(s)) ELSE s

RECURSIVE rstrip(_)
rstrip(s) ==
    IF s # <<>> /\ s[Len(s)] \in Whitespace THEN rstrip(SubSeq(s, 1, Len(s) - 1)) ELSE s

strip(s) == rstrip(lstrip(s))

\* str.lower(), on the letters the identifiers use in upper case
lowerChar(c) ==
    CASE c = "A" -> "a" [] c = "F" -> "f" [] c = "G" -> "g" [] c = "H" -> "h"
      [] c = "L" -> "l" [] c = "O" -> "o" [] c = "P" -> "p" [] c = "R" -> "r"
      [] c = "S" -> "s" [] OTHER -> c

lower(s) == [k \in 1..Len(s) |-> lowerChar(s[k])]

\* Python's  sub in s  on strings
In(sub, s) == \E k \in 0..(Len(s) - Len(sub)) : SubSeq(s, k + 1, k + Len(sub)) = sub

\* str.split(sep): leftmost, non-overlapping occurrences of sep
RECURSIVE splitFrom(_, _, _)
splitFrom(rest, sep, cur) ==
    IF Len(rest) >= Len(sep) /\ SubSeq(rest, 1, Len(sep)) = sep
    THEN <<cur>> \o splitFrom(SubSeq(rest, Len(sep) + 1, Len(rest)), sep, <<>>)
    ELSE IF rest = <<>>
         THEN <<cur>>
         ELSE splitFrom(Tail(rest), sep, Append(cur, Head(rest)))

split(s, sep) == splitFrom(s, sep, <<>>)

\* all sequences over S of length lo..hi
SeqsOf(S, lo, hi) == UNION {[1..n -> S] : n \in lo..hi}

----------------------------------------------------------------------------
(* get_gemini_model: the model selector.                                   *)

FLASH == <<"f","l","a","s","h">>

PRO == <<"p","r","o">>

V15 == <<"1",".","5">>

GenerateContent == "generateContent"

\* a selector that forgets m.lower()
RECURSIVE nextFlashCaseSensitive(_)
nextFlashCaseSensitive(ms) ==
    IF ms = <<>> THEN <<>>
    ELSE IF In(FLASH, Head(ms)) /\ In(V15, Head(ms)) THEN <<Head(ms)>>
    ELSE nextFlashCaseSensitive(Tail(ms))

\* next((m for m in ms if pred), None): <<m>> for the first match, <<>> for None
RECURSIVE nextFlash(_)
nextFlash(ms) ==
    IF ms = <<>> THEN <<>>
    ELSE IF In(FLASH, lower(Head(ms))) /\ In(V15, Head(ms)) THEN <<Head(ms)>>
    ELSE nextFlash(Tail(ms))

RECURSIVE nextPro(_)
nextPro(ms) ==
    IF ms = <<>> THEN <<>>
    ELSE IF In(PRO, lower(Head(ms))) /\ In(V15, Head(ms)) THEN <<Head(ms)>>
    ELSE nextPro(Tail(ms))

\* Python truth of  chosen_model : None and the empty string are false
Truthy(opt) == opt # <<>> /\ opt[1] # <<>>

\* [m.name for m in genai.list_models() if 'generateContent' in m.supported_generation_methods]
RECURSIVE generateModels(_)
generateModels(ms) ==
    IF ms = <<>> THEN <<>>
    ELSE IF GenerateContent \in Head(ms).supported_generation_methods
         THEN <<Head(ms).name>> \o generateModels(Tail(ms))
         ELSE generateModels(Tail(ms))

\* Priority: Flash -> Pro -> Any
chooseModel(all_models) ==
    LET c1 == nextFlash(all_models)
        c2 == IF ~Truthy(c1) THEN nextPro(all_models) ELSE c1
        c3 == IF ~Truthy(c2) /\ all_models # <<>> THEN <<all_models[1]>> ELSE c2
    IN  c3

\* listed is Raised (bad credential, listing fails) or the list of models
get_gemini_model(listed) ==
    IF listed = Raised THEN None
    ELSE LET chosen_model == chooseModel(generateModels(listed.models))
         IN  IF Truthy(chosen_model) THEN [model_name |-> chosen_model[1]] ELSE None

Gemini10Pro ==
    <<"m","o","d","e","l","s","/","g","e","m","i","n","i","-","1",".","0","-","p","r","o">>

Gemini15Flash ==
    <<"m","o","d","e","l","s","/","g","e","m","i","n","i","-","1",".","5","-","f","l","a","s","h","-","0","0","1">>

Gemini15Pro ==
    <<"m","o","d","e","l","s","/","g","e","m","i","n","i","-","1",".","5","-","p","r","o","-","0","0","2">>

Gemini15FlashUpper ==
    <<"m","o","d","e","l","s","/","G","e","m","i","n","i","-","1",".","5","-","F","L","A","S","H">>

Gemini20Flash ==
    <<"m","o","d","e","l","s","/","g","e","m","i","n","i","-","2",".","0","-","f","l","a","s","h">>

Gemini15ProUpper ==
    <<"m","o","d","e","l","s","/","g","e","m","i","n","i","-","1",".","5","-","P","r","o","-","l","a","t","e","s","t">>

Embedding ==
    <<"m","o","d","e","l","s","/","e","m","b","e","d","d","i","n","g","-","0","0","1">>

\* the models a listing may hold
ModelPool ==
    {[name |-> n, supported_generation_methods |-> {GenerateContent, "countTokens"}] :
        n \in {Gemini10Pro, Gemini15Flash, Gemini15Pro, Gemini15FlashUpper,
               Gemini20Flash, Gemini15ProUpper}}
    \cup {[name |-> Embedding, supported_generation_methods |-> {"embedContent"}],
          [name |-> Gemini15Flash, supported_generation_methods |-> {"embedContent"}]}

Listings == {Raised} \cup {[models |-> ms] : ms \in SeqsOf(ModelPool, 0, MaxModels)}

----------------------------------------------------------------------------
(* analyze_call: the call analyzer.                                        *)

SEP == <<"#","#","#">>

PLACEHOLDER == <<"-">>

\* the keys of the returned mapping, in the order of parts[0..16]
FieldKeys ==
    <<"CSM Name", "Customer Name", "Lead Intent",
      "Brand Trust", "Brand Detail", "Value", "Value Detail",
      "ROI", "ROI Detail", "Spiritual", "Spiritual Detail",
      "Technical", "Technical Detail",
      "Urgency: 6L+2L Offer", "Urgency: Price Movement",
      "Family/Spouse Objections", "Pitch Flow Adherence">>

NumFields == 17

FieldKeySet == {FieldKeys[k] : k \in 1..Len(FieldKeys)}

KeyIndex(key) == CHOOSE k \in 1..Len(FieldKeys) : FieldKeys[k] = key

\* a padding loop that appends the empty string
RECURSIVE padBlank(_)
padBlank(parts) == IF Len(parts) < NumFields THEN padBlank(Append(parts, <<>>)) ELSE parts

\* while len(parts) < 17: parts.append("-")
RECURSIVE pad(_)
pad(parts) == IF Len(parts) < NumFields THEN pad(Append(parts, PLACEHOLDER)) ELSE parts

\* resp is Raised (the request or response.text raised) or [text |-> reply]
analyze_call(resp) ==
    IF resp = Raised THEN None
    ELSE LET raw   == strip(resp.text)
             segs  == split(raw, SEP)
             parts == pad([k \in 1..Len(segs) |-> strip(segs[k])])
         IN  [key \in FieldKeySet |-> parts[KeyIndex(key)]]


----------------------------------------------------------------------------
(* extract_text_from_pdf: the text extractor.                              *)

\* file_bytes is [valid, pages]: PdfReader raises on bytes that are no PDF, and
\* extract_text() raises (or returns None, and None + "\n" raises) on a bad page
RECURSIVE pageTexts(_)
pageTexts(pages) ==
    IF pages = <<>> THEN <<>>
    ELSE Head(pages).text \o <<"\n">> \o pageTexts(Tail(pages))

extract_text_from_pdf(file_bytes) ==
    IF ~file_bytes.valid THEN <<>>
    ELSE IF \E k \in 1..Len(file_bytes.pages) : ~file_bytes.pages[k].ok THEN <<>>
    ELSE pageTexts(file_bytes.pages)

Page(t) == [ok |-> TRUE, text |-> t]

BadPage == [ok |-> FALSE, text |-> <<>>]

\* the files an operator may upload
FilePool ==
    {[name |-> "a.pdf", bytes |-> [valid |-> TRUE, pages |-> <<Page(<<"h","i">>)>>]],
     [name |-> "b.pdf", bytes |-> [valid |-> TRUE, pages |-> <<Page(<<"o","k">>), Page(<<>>)>>]],
     [name |-> "scan.pdf", bytes |-> [valid |-> TRUE, pages |-> <<Page(<<" ">>)>>]],
     [name |-> "bad.pdf", bytes |-> [valid |-> FALSE, pages |-> <<>>]],
     [name |-> "torn.pdf", bytes |-> [valid |-> TRUE, pages |-> <<Page(<<"h","i">>), BadPage>>]]}

Uploads == SeqsOf(FilePool, 1, MaxFiles)

SessionUploads == SeqsOf(FilePool, 1, SessionFiles)

----------------------------------------------------------------------------
(* generate_csm_summary: the summary generator.  A reply is a sequence of  *)
(* tokens: the fence markers, whitespace, and JSON documents.              *)

\* the fence markers (three backquotes, written here with the quote character)
FENCE_JSON == "'''json"

FENCE == "'''"

SummaryJson == "{\"CSM Name\": \"A\", \"Strengths\": \"s\", \"Areas of Improvement\": \"a\"}"

NullJson == "null"

NotJson == "Sure, here is the summary"

ERROR == <<"E","r","r","o","r">>

\* the mapping {"CSM Name": .., "Strengths": .., "Areas of Improvement": ..}
Summary(name, strengths, areas) ==
    [key \in {"CSM Name", "Strengths", "Areas of Improvement"} |->
        CASE key = "CSM Name" -> name
          [] key = "Strengths" -> strengths
          [] OTHER -> areas]

\* str.replace(old, "")
replace(s, old) == SelectSeq(s, LAMBDA x : x # old)

\* json.loads: a mapping for a JSON object, None for null, raises on anything else
json_loads(clean) ==
    IF clean = <<SummaryJson>>
    THEN Summary(<<"A">>, <<"s">>, <<"a">>)
    ELSE IF clean = <<NullJson>> THEN None
    ELSE Raised

Sentinel(csm_name) == Summary(csm_name, ERROR, ERROR)

\* resp is Raised (the request or response.text raised) or [text |-> tokens]
generate_csm_summary(resp, csm_name) ==
    IF resp = Raised THEN Sentinel(csm_name)
    ELSE LET clean == strip(replace(replace(resp.text, FENCE_JSON), FENCE))
             value == json_loads(clean)
         IN  IF value = Raised THEN Sentinel(csm_name) ELSE value

SummaryResponses ==
    {Raised,
     [text |-> <<FENCE_JSON, "\n", SummaryJson, "\n", FENCE>>],
     [text |-> <<NullJson>>],
     [text |-> <<NotJson>>]}

\* pd.DataFrame(rows) on a list that starts with a mapping reads every element's
\* keys, and raises on an element that is not a mapping
DataFrameOf(rows) ==
    IF rows # <<>> /\ rows[1] # None /\ \E k \in 1..Len(rows) : rows[k] = None
    THEN Raised
    ELSE DataFrame(rows)

\* Series.unique(): the distinct values in order of first appearance
RECURSIVE unique(_)
unique(xs) ==
    IF xs = <<>> THEN <<>>
    ELSE LET init == unique(SubSeq(xs, 1, Len(xs) - 1))
             last == xs[Len(xs)]
         IN  IF \E k \in 1..Len(init) : init[k] = last THEN init ELSE Append(init, last)

Column(df, key) == [k \in 1..Len(df.rows) |-> df.rows[k][key]]

----------------------------------------------------------------------------
(* The script: session state, run_button, display.                         *)

MaxAttempts == 3

ErrNone == "none"

ErrInvalidKey == "Invalid API Key or No Model Found."

ErrNoResults == "No results could be extracted."

\* the outcomes of list_models() a run may see
RunListings ==
    {Raised,
     [models |-> <<[name |-> Embedding, supported_generation_methods |-> {"embedContent"}]>>],
     [models |-> <<[name |-> Gemini15Flash,
                    supported_generation_methods |-> {GenerateContent}]>>]}

\* the outcomes of the analysis request
AnalysisResponses ==
    {Raised,
     [text |-> <<"A","#","#","#","x">>],
     [text |-> <<" ","B"," ","#","#","#","y","\n">>]}

\* data['File Name'] = uploaded_file.name
WithFileName(data, name) ==
    [key \in DOMAIN data \cup {"File Name"} |->
        IF key = "File Name" THEN name ELSE data[key]]

\* Python truth of analyze_call's result: None and the empty dict are false
DataTruthy(data) == data # None /\ DOMAIN data # {}

\* a test that forgets strip()
HasTextUnstripped(t) == t # <<>>

\* if text.strip():
HasText(t) == strip(t) # <<>>

\* a retry loop that forgets the break
AfterAttemptNoBreak(data) == "backoff"

\* if data: ... break   leaves the retry loop; otherwise time.sleep(2) follows
AfterAttempt(data) == IF DataTruthy(data) THEN "pause" ELSE "backoff"

\* a list that is filled from the front
Prepended(rs, data) == <<data>> \o rs

\* results.append(data)
Appended(rs, data) == Append(rs, data)

\* the state of a fresh session, but for the position and the inputs
Blank ==
    /\ analysis_results = None
    /\ csm_summary = None
    /\ uploaded_files = <<>>
    /\ model = None
    /\ results = <<>>
    /\ idx = 0
    /\ text = <<>>
    /\ attempt = 0
    /\ unique_csms = <<>>
    /\ summaries = <<>>
    /\ i = 0
    /\ errorShown = ErrNone
    /\ status = ""
    /\ downloadOffered = FALSE
    /\ exception = FALSE
    /\ origin = <<>>
    /\ attemptLog = <<>>
    /\ history = <<>>
    /\ backoffs = 0
    /\ pauses = 0
    /\ extracted = 0
    /\ apiCalls = 0
    /\ summaryLog = <<>>
    /\ runs = 0
    /\ chosen = None
    /\ parsed = None

Init ==
    /\ Blank
    /\ pc = "idle"
    /\ listing = Raised
    /\ response = Raised

\* a rerun of the script starts from a blank page with fresh locals
FreshRun ==
    /\ results' = <<>>
    /\ idx' = 0
    /\ text' = <<>>
    /\ attempt' = 0
    /\ unique_csms' = <<>>
    /\ summaries' = <<>>
    /\ i' = 0
    /\ status' = ""
    /\ downloadOffered' = FALSE
    /\ exception' = FALSE
    /\ origin' = <<>>
    /\ attemptLog' = <<>>
    /\ history' = <<>>
    /\ backoffs' = 0
    /\ pauses' = 0
    /\ extracted' = 0
    /\ apiCalls' = 0
    /\ summaryLog' = <<>>

\* a model check that shows the error and goes on
AfterModelCheckProceed(m) == "extract"

\* if not model: st.error(...)  else: the file loop
AfterModelCheck(m) == IF m = None THEN "display" ELSE "extract"

\* run_button is pressed: get_gemini_model and the model check
Run(files, listed) ==
    /\ pc = "idle"
    /\ uploaded_files' = files
    /\ model' = get_gemini_model(listed)
    /\ pc' = AfterModelCheck(model')
    /\ errorShown' = IF model' = None THEN ErrInvalidKey ELSE ErrNone
    /\ runs' = runs + 1
    /\ FreshRun
    /\ UNCHANGED <<sessionVars, selectVars, parseVars>>

\* the first run of a session
FirstRun ==
    /\ runs = 0
    /\ \E files \in Uploads, listed \in RunListings : Run(files, listed)

\* any run of a session
RunAnalysis ==
    /\ runs < MaxRuns
    /\ \E files \in SessionUploads, listed \in RunListings : Run(files, listed)

\* the script reruns without the button pressed (any other interaction)
Rerender ==
    /\ pc = "idle"
    /\ pc' = "display"
    /\ errorShown' = ErrNone
    /\ FreshRun
    /\ UNCHANGED <<sessionVars, uploaded_files, model, runs, selectVars, parseVars>>

\* the head of the file loop: extract the text and test it
Extract ==
    /\ pc = "extract"
    /\ text' = extract_text_from_pdf(uploaded_files[idx + 1].bytes)
    /\ extracted' = extracted + 1
    /\ status' = "processing"
    /\ attemptLog' = <<>>
    /\ backoffs' = 0
    /\ attempt' = 0
    /\ pc' = IF HasText(text') THEN "attempt" ELSE "pause"
    /\ UNCHANGED <<sessionVars, uploaded_files, model, results, idx, unique_csms,
                   summaries, i, errorShown, downloadOffered, exception, origin,
                   history, pauses, apiCalls, summaryLog, runs, selectVars, parseVars>>

\* one pass of the retry loop: the request, and the record on success
Attempt ==
    /\ pc = "attempt"
    /\ \E resp \in AnalysisResponses :
          LET data == analyze_call(resp) IN
          /\ attemptLog' = Append(attemptLog, resp # Raised)
          /\ pc' = AfterAttempt(data)
          /\ IF DataTruthy(data)
             THEN /\ results' = Appended(results, WithFileName(data, uploaded_files[idx + 1].name))
                  /\ origin' = Append(origin, idx)
             ELSE UNCHANGED <<results, origin>>
    /\ apiCalls' = apiCalls + 1
    /\ UNCHANGED <<sessionVars, uploaded_files, model, idx, text, attempt, unique_csms,
                   summaries, i, errorShown, status, downloadOffered, exception,
                   history, backoffs, pauses, extracted, summaryLog, runs, selectVars,
                   parseVars>>

\* time.sleep(2), then the next value of range(3) if there is one
Backoff ==
    /\ pc = "backoff"
    /\ backoffs' = backoffs + 1
    /\ IF attempt + 1 < MaxAttempts
       THEN /\ attempt' = attempt + 1
            /\ pc' = "attempt"
       ELSE /\ pc' = "pause"
            /\ UNCHANGED attempt
    /\ UNCHANGED <<sessionVars, uploaded_files, model, results, idx, text, unique_csms,
                   summaries, i, errorShown, status, downloadOffered, exception, origin,
                   attemptLog, history, pauses, extracted, apiCalls, summaryLog, runs,
                   selectVars, parseVars>>

\* the progress update and time.sleep(1) that end every pass of the file loop
Pause ==
    /\ pc = "pause"
    /\ pauses' = pauses + 1
    /\ history' = Append(history, attemptLog)
    /\ idx' = idx + 1
    /\ pc' = IF idx + 1 < Len(uploaded_files) THEN "extract" ELSE "results"
    /\ UNCHANGED <<sessionVars, uploaded_files, model, results, text, attempt,
                   unique_csms, summaries, i, errorShown, status, downloadOffered,
                   exception, origin, attemptLog, backoffs, extracted, apiCalls,
                   summaryLog, runs, selectVars, parseVars>>

\* if results: store them and list the salespeople; else: the error
CheckResults ==
    /\ pc = "results"
    /\ IF results # <<>>
       THEN /\ analysis_results' = DataFrame(results)
            /\ status' = "summaries"
            /\ unique_csms' = unique(Column(analysis_results', "CSM Name"))
            /\ summaries' = <<>>
            /\ i' = 0
            /\ pc' = "summarize"
            /\ UNCHANGED errorShown
       ELSE /\ errorShown' = ErrNoResults
            /\ pc' = "display"
            /\ UNCHANGED <<analysis_results, status, unique_csms, summaries, i>>
    /\ UNCHANGED <<csm_summary, uploaded_files, model, results, idx, text, attempt,
                   downloadOffered, exception, origin, attemptLog, history, backoffs,
                   pauses, extracted, apiCalls, summaryLog, runs, selectVars, parseVars>>

\* one pass of the summary loop
Summarize ==
    /\ pc = "summarize"
    /\ \E resp \in SummaryResponses :
          /\ summaries' = Append(summaries, generate_csm_summary(resp, unique_csms[i + 1]))
          /\ summaryLog' = Append(summaryLog, [csm |-> unique_csms[i + 1], resp |-> resp])
    /\ apiCalls' = apiCalls + 1
    /\ i' = i + 1
    /\ pc' = IF i + 1 < Len(unique_csms) THEN "summarize" ELSE "store"
    /\ UNCHANGED <<sessionVars, uploaded_files, model, results, idx, text, attempt,
                   unique_csms, errorShown, status, downloadOffered, exception, origin,
                   attemptLog, history, backoffs, pauses, extracted, runs, selectVars,
                   parseVars>>

\* st.session_state['csm_summary'] = pd.DataFrame(summaries), and the final status;
\* an exception here is caught nowhere and ends the script
StoreSummaries ==
    /\ pc = "store"
    /\ LET df == DataFrameOf(summaries) IN
       IF df = Raised
       THEN /\ exception' = TRUE
            /\ pc' = "idle"
            /\ UNCHANGED <<csm_summary, status>>
       ELSE /\ csm_summary' = df
            /\ status' = "complete"
            /\ pc' = "display"
            /\ UNCHANGED exception
    /\ UNCHANGED <<analysis_results, uploaded_files, model, results, idx, text, attempt,
                   unique_csms, summaries, i, errorShown, downloadOffered, origin,
                   attemptLog, history, backoffs, pauses, extracted, apiCalls, summaryLog,
                   runs, selectVars, parseVars>>

\* Display Results and the Export Button
Display ==
    /\ pc = "display"
    /\ downloadOffered' = (analysis_results # None)
    /\ pc' = "idle"
    /\ UNCHANGED <<sessionVars, uploaded_files, model, results, idx, text, attempt,
                   unique_csms, summaries, i, errorShown, status, exception, origin,
                   attemptLog, history, backoffs, pauses, extracted, apiCalls, summaryLog,
                   runs, selectVars, parseVars>>

Next ==
    \/ FirstRun
    \/ Rerender
    \/ Extract
    \/ Attempt
    \/ Backoff
    \/ Pause
    \/ CheckResults
    \/ Summarize
    \/ StoreSummaries
    \/ Display

Spec == Init /\ [][Next]_vars

NextSession ==
    \/ RunAnalysis
    \/ Rerender
    \/ Extract
    \/ Attempt
    \/ Backoff
    \/ Pause
    \/ CheckResults
    \/ Summarize
    \/ StoreSummaries
    \/ Display

SpecSession == Init /\ [][NextSession]_vars

----------------------------------------------------------------------------
(* The model selector on its own: one listing, one selection.              *)

InitSelect ==
    /\ Blank
    /\ pc = "select"
    /\ listing \in Listings
    /\ response = Raised

SelectModel ==
    /\ pc = "select"
    /\ chosen' = get_gemini_model(listing)
    /\ pc' = "selected"
    /\ UNCHANGED <<sessionVars, uploaded_files, model, results, idx, text, attempt,
                   unique_csms, summaries, i, errorShown, status, downloadOffered,
                   exception, origin, attemptLog, history, backoffs, pauses, extracted,
                   apiCalls, summaryLog, runs, listing, parseVars>>

NextSelect == SelectModel

SpecSelect == InitSelect /\ [][NextSelect]_vars

----------------------------------------------------------------------------
(* The call analyzer on its own: one reply, one parse.                     *)

Letters == <<"a","b","c","d","e","f","g","h","i","j","k","l","m","n","o","p","q","r","s","t">>

\* the text of an ordinary segment at position j
Plain(j) == <<Letters[((j - 1) % Len(Letters)) + 1]>>

\* the texts one segment of a reply is varied over
OddSegments ==
    {<<>>, <<" ","x"," ">>, <<"#">>, <<"x","#","#">>, <<"x"," ","y">>, <<"\n">>}

RECURSIVE join(_, _)
join(segs, sep) ==
    IF segs = <<>> THEN <<>>
    ELSE IF Len(segs) = 1 THEN segs[1]
    ELSE segs[1] \o sep \o join(Tail(segs), sep)

\* replies of 1..MaxSegs segments, one of them odd, bare or wrapped in whitespace
Replies ==
    {<<>>} \cup
    UNION {UNION {UNION {
        LET r == join([j \in 1..n |-> IF j = p THEN odd ELSE Plain(j)], SEP)
        IN  {r, <<" ">> \o r \o <<"\n">>}
        : odd \in OddSegments} : p \in 1..n} : n \in 1..MaxSegs}

InitParse ==
    /\ Blank
    /\ pc = "parse"
    /\ listing = Raised
    /\ response \in {Raised} \cup {[text |-> r] : r \in Replies}

AnalyzeReply ==
    /\ pc = "parse"
    /\ parsed' = analyze_call(response)
    /\ pc' = "parsed"
    /\ UNCHANGED <<sessionVars, uploaded_files, model, results, idx, text, attempt,
                   unique_csms, summaries, i, errorShown, status, downloadOffered,
                   exception, origin, attemptLog, history, backoffs, pauses, extracted,
                   apiCalls, summaryLog, runs, selectVars, response>>

NextParse == AnalyzeReply

SpecParse == InitParse /\ [][NextParse]_vars

----------------------------------------------------------------------------
(* Properties.                                                             *)

Min(S) == CHOOSE x \in S : \A y \in S : x <= y

Max(S) == CHOOSE x \in S : \A y \in S : x >= y

\* the CallRecords appended for the transcript at position t of the upload
RecordsFor(t) == Cardinality({k \in 1..Len(origin) : origin[k] = t})

SomeSuccess(log) == \E k \in 1..Len(log) : log[k]

\* the distinct salesperson names of a list of CallRecords
NamesOf(rows) == {rows[k]["CSM Name"] : k \in 1..Len(rows)}

(* C1: for a transcript with extracted text the orchestrator makes at most 3
   analysis attempts, makes none after a success, appends exactly one
   CallRecord if an attempt succeeded and none if all 3 failed. *)
C1_RetryStopsAtFirstSuccess ==
    /\ Len(attemptLog) <= 3
    /\ \A k \in 1..(Len(attemptLog) - 1) : ~attemptLog[k]
    /\ pc \in {"attempt", "backoff"} => RecordsFor(idx) = 0
    /\ (pc = "pause" /\ text # <<>>) =>
          /\ SomeSuccess(attemptLog) => RecordsFor(idx) = 1
          /\ ~SomeSuccess(attemptLog) => RecordsFor(idx) = 0
          /\ (~SomeSuccess(attemptLog) /\ attemptLog # <<>>) => Len(attemptLog) = 3

C1_Witness ==
    /\ pc = "pause"
    /\ attemptLog = <<FALSE, FALSE, TRUE>>
    /\ RecordsFor(idx) = 1

(* C2: a run that yields zero CallRecords ends with the error shown and no
   download button offered, also when an earlier run of the session succeeded. *)
C2_NoExportAfterZeroResults ==
    (pc = "idle" /\ errorShown = ErrNoResults) => ~downloadOffered

C3_Step ==
    /\ (pc = "idle" /\ runs' = runs + 1 /\ model' = None) =>
          (errorShown' = ErrInvalidKey /\ pc' = "display")
    /\ errorShown' = ErrInvalidKey =>
          (UNCHANGED sessionVars /\ extracted' = 0 /\ apiCalls' = 0)

(* C3: when get_gemini_model returns None the run shows the error and goes
   straight to the display; while that error is shown nothing was extracted,
   no generate-content request was issued, and analysis_results and
   csm_summary are as they were. *)
C3_ModelFailureAbortsRun == [][C3_Step]_vars

C3_Witness ==
    /\ pc = "idle"
    /\ errorShown = ErrInvalidKey
    /\ analysis_results # None
    /\ csm_summary # None
    /\ runs = 2

\* case-insensitive: the identifier contains the word and "1.5"
MatchesBoth(id, word) == In(lower(word), lower(id)) /\ In(lower(V15), lower(id))

ContentModels(ms) ==
    LET kept == SelectSeq(ms, LAMBDA m : GenerateContent \in m.supported_generation_methods)
    IN  [k \in 1..Len(kept) |-> kept[k].name]

ExpectedChoice(ids) ==
    LET F == {k \in 1..Len(ids) : MatchesBoth(ids[k], FLASH)}
        P == {k \in 1..Len(ids) : MatchesBoth(ids[k], PRO)}
    IN  IF F # {} THEN [model_name |-> ids[Min(F)]]
        ELSE IF P # {} THEN [model_name |-> ids[Min(P)]]
        ELSE IF ids # <<>> THEN [model_name |-> ids[1]]
        ELSE None

(* C4: the selector returns the first identifier containing "flash" and "1.5",
   else the first containing "pro" and "1.5", else the first identifier, else
   none; matching is case-insensitive. *)
C4_SelectionPolicy ==
    (pc = "selected" /\ listing # Raised) =>
        chosen = ExpectedChoice(ContentModels(listing.models))

C4_Witness ==
    /\ pc = "selected"
    /\ listing # Raised
    /\ Len(listing.models) = 3
    /\ listing.models[1].name = Gemini10Pro
    /\ listing.models[2].name = Gemini15Pro
    /\ listing.models[3].name = Gemini15FlashUpper
    /\ chosen = [model_name |-> Gemini15FlashUpper]

\* the starts of the '###' delimiters of s, read from the left without overlap
DelimStarts(s) ==
    LET D[p \in 0..Len(s)] ==
            IF p = 0 THEN FALSE
            ELSE /\ p + 2 <= Len(s)
                 /\ SubSeq(s, p, p + 2) = <<"#","#","#">>
                 /\ ~D[p - 1]
                 /\ (p < 2 \/ ~D[p - 2])
    IN  {p \in 1..Len(s) : D[p]}

Nth(S, k) == CHOOSE x \in S : Cardinality({y \in S : y < x}) = k - 1

SegmentCount(s) == Cardinality(DelimStarts(s)) + 1

Segment(s, k) ==
    LET S    == DelimStarts(s)
        from == IF k = 1 THEN 1 ELSE Nth(S, k - 1) + 3
        to   == IF k <= Cardinality(S) THEN Nth(S, k) - 1 ELSE Len(s)
    IN  SubSeq(s, from, to)

\* s without its leading and trailing blanks and newlines
Trimmed(s) ==
    LET NW == {p \in 1..Len(s) : s[p] \notin {" ", "\n"}}
    IN  IF NW = {} THEN <<>> ELSE SubSeq(s, Min(NW), Max(NW))

(* C5: a successful analyze_call returns a mapping with exactly the 17 fixed
   keys; key k holds the trimmed k-th '###'-delimited segment of the reply when
   the reply has at least k segments and "-" otherwise; segments after the
   17th are dropped. *)
C5_SeventeenFields ==
    (pc = "parsed" /\ response # Raised) =>
        /\ DOMAIN parsed = FieldKeySet
        /\ Cardinality(DOMAIN parsed) = 17
        /\ \A k \in 1..17 :
              parsed[FieldKeys[k]] =
                  IF k <= SegmentCount(response.text)
                  THEN Trimmed(Segment(response.text, k))
                  ELSE <<"-">>

C5_Witness ==
    /\ pc = "parsed"
    /\ response # Raised
    /\ SegmentCount(response.text) = 18
    /\ Segment(response.text, 17) = <<" ","x"," ">>
    /\ parsed["Pitch Flow Adherence"] = <<"x">>
    /\ parsed["CSM Name"] = <<"a">>

C6_Inv ==
    /\ Len(results) = Len(origin)
    /\ \A k \in 1..Len(origin) :
          /\ origin[k] \in 0..(Len(uploaded_files) - 1)
          /\ results[k]["File Name"] = uploaded_files[origin[k] + 1].name
          /\ \A j \in 1..(k - 1) : origin[j] < origin[k]
    /\ (pc = "extract" /\ idx = 0) => results = <<>>
    /\ (pc = "results" /\ \A t \in 1..Len(history) : history[t] = <<TRUE>>) =>
          Len(results) = Len(uploaded_files)

C6_Step ==
    pc # "idle" =>
        /\ Len(results') >= Len(results)
        /\ SubSeq(results', 1, Len(results)) = results

(* C6: during a run the ResultSet starts empty, holds at most one CallRecord
   per uploaded transcript, each with its file name, in upload order; records
   are only appended; when all N analyses succeed at the first attempt it ends
   with N records. *)
C6_ResultSetAppendOnly == []C6_Inv /\ [][C6_Step]_vars

C6_Witness ==
    /\ pc = "results"
    /\ Len(uploaded_files) = 2
    /\ history = << <<TRUE>>, <<TRUE>> >>
    /\ Len(results) = 2
    /\ results[1]["File Name"] = "b.pdf"
    /\ results[2]["File Name"] = "a.pdf"

\* the entry the summary request for one salesperson is to leave
ExpectedSummary(entry) ==
    LET value == IF entry.resp = Raised THEN Raised
                 ELSE json_loads(strip(replace(replace(entry.resp.text, FENCE_JSON), FENCE)))
    IN  IF value = Raised THEN Sentinel(entry.csm) ELSE value

(* C7: after a run with at least one CallRecord the PersonSummary collection
   has one entry per distinct salesperson name, from one request per name:
   the parsed reply, or the "Error" sentinel for that name. *)
C7_OneSummaryPerSalesperson ==
    (pc \in {"display", "idle"} /\ results # <<>>) =>
        /\ csm_summary # None
        /\ Len(csm_summary.rows) = Cardinality(NamesOf(results))
        /\ Len(summaryLog) = Cardinality(NamesOf(results))
        /\ {summaryLog[k].csm : k \in 1..Len(summaryLog)} = NamesOf(results)
        /\ \A k \in 1..Len(summaryLog) :
              csm_summary.rows[k] = ExpectedSummary(summaryLog[k])

(* C8: no exception escapes the run; a run makes at most 3 analysis requests
   per transcript and one summary request per distinct salesperson, and ends
   in 'Analysis Complete' or with an error shown. *)
C8_NoExceptionEscapes ==
    /\ ~exception
    /\ Len(attemptLog) <= 3
    /\ Len(summaryLog) <= Cardinality(NamesOf(results))
    /\ apiCalls <= 3 * Len(uploaded_files) + Cardinality(NamesOf(results))
    /\ (pc = "idle" /\ extracted > 0) => (status = "complete" \/ errorShown # ErrNone)

(* C9: the 2-second backoff is taken only between two attempts on the same
   transcript: k failures and then a success give k pauses, and no transcript
   has more than 2. *)
C9_BackoffOnlyBetweenAttempts ==
    /\ backoffs <= 2
    /\ (pc = "pause" /\ attemptLog # <<>>) => backoffs = Len(attemptLog) - 1

C10_Step ==
    /\ pc = "extract" =>
          /\ ~uploaded_files[idx + 1].bytes.valid => text' = <<>>
          /\ Trimmed(text') = <<>> =>
                /\ pc' = "pause"
                /\ attemptLog' = <<>>
                /\ apiCalls' = apiCalls
                /\ results' = results
    /\ pc = "pause" =>
          /\ pauses' = pauses + 1
          /\ idx' = idx + 1
          /\ pc' = IF idx + 1 < Len(uploaded_files) THEN "extract" ELSE "results"
          /\ apiCalls' = apiCalls
          /\ results' = results

(* C10: a transcript whose text is empty or only whitespace (a corrupt file
   gives the empty text) causes no analysis request and no CallRecord, and the
   run goes on to the next transcript after the 1-second pause that follows
   every transcript. *)
C10_BlankTranscriptSkipped == [][C10_Step]_vars

C10_Witness ==
    /\ pc = "extract"
    /\ idx = 1
    /\ text # <<>>
    /\ Trimmed(text) = <<>>
    /\ pauses = 1
    /\ apiCalls = 0
    /\ results = <<>>

=============================================================================
